---- MODULE Spec2Model ----
(***************************************************************************)
(* Model of streamlit_app.py: the secrets check, the secrets-to-config    *)
(* compiler, the process-wide cached create_api, the per-session script   *)
(* run (main) with its awaited calls into the external API object, and    *)
(* the two health-check handlers.                                         *)
(*                                                                         *)
(* Strings of the program are sequences of one-character strings (API     *)
(* keys, spreadsheet id) or sequences of JSON tokens (the credentials     *)
(* blob), so that startswith, len and json.loads are computed.            *)
(***************************************************************************)
EXTENDS Integers, Sequences, FiniteSets, TLC

VARIABLES
    secrets,        \* st.secrets: key -> [present, value]
    cache,          \* st.cache_resource entry of create_api
    files,          \* transient files that exist on disk
    tempAttr,       \* hasattr(api, '_temp_config_path') on the cached api object
    api,            \* st.session_state.api, per session
    initialized,    \* st.session_state.initialized, per session
    last_results,   \* st.session_state.last_results, per session
    pc,             \* per session: where its script run is
    out,            \* what the latest step of a script run has shown
    bodyRuns,       \* executions of the body of create_api
    initCalls,      \* calls of api.initialize()
    firstCall,      \* the first method ever called on the api object
    runs,           \* script runs started so far
    hin,            \* health-check aggregation alone: handler and outcome
    hrep            \* health-check aggregation alone: the report

vars == <<secrets, cache, files, tempAttr, api, initialized, last_results, pc,
          out, bodyRuns, initCalls, firstCall, runs, hin, hrep>>

procVars == <<secrets, cache, files, tempAttr, api, initialized, last_results,
              pc, out, bodyRuns, initCalls, firstCall, runs>>

(***************************************************************************)
(* Bounds                                                                  *)
(***************************************************************************)
NumSessions == 2
MaxRuns == 4
MaxAgents == 2

Sessions == 1..NumSessions

None == "None"

(***************************************************************************)
(* Python helpers                                                          *)
(***************************************************************************)
\* dict.get(key, default) on a mapping modelled as a function
Get(d, k, default) == IF k \in DOMAIN d THEN d[k] ELSE default

\* str.startswith(prefix)
StartsWith(s, prefix) ==
    /\ Len(s) >= Len(prefix)
    /\ SubSeq(s, 1, Len(prefix)) = prefix

\* truthiness of a str value
Truthy(s) == Len(s) > 0

(***************************************************************************)
(* Secret values                                                           *)
(***************************************************************************)
Absent == [present |-> FALSE, value |-> <<>>]
Val(s) == [present |-> TRUE, value |-> s]

SkPrefix == <<"s", "k", "-">>
PplxPrefix == <<"p", "p", "l", "x", "-">>
PplxMinLen == 20

OpenAIGood == SkPrefix \o <<"a", "b">>
OpenAIBad == <<"k", "e", "y">>
PplxGood == PplxPrefix \o <<"0", "1", "2", "3", "4", "5", "6", "7", "8", "9",
                             "a", "b", "c", "d", "e">>
PplxShort == PplxPrefix \o <<"0">>
PplxBad == <<"k", "e", "y">>
GeminiKey == <<"g">>
SheetId == <<"1", "u", "6">>

\* credentials blobs, as JSON token sequences
CredsWithEmail == <<"{", "\"client_email\"", ":", "\"x@y.com\"", "}">>
CredsNoEmail == <<"{", "\"type\"", ":", "\"x@y.com\"", "}">>
CredsEmptyObj == <<"{", "}">>
CredsNotJson == <<"{", "\"client_email\"">>
CredsNumber == <<"123">>
CredsList == <<"[", "]">>
CredsString == <<"\"client_email\"">>

OpenAIValues == {Val(OpenAIGood), Val(OpenAIBad)}
PplxValues == {Val(PplxGood), Val(PplxShort), Val(PplxBad)}
GeminiValues == {Val(GeminiKey)}
SheetValues == {Val(SheetId)}
CredsValues == {Val(CredsWithEmail), Val(CredsNoEmail), Val(CredsEmptyObj),
                Val(CredsNotJson), Val(CredsNumber), Val(CredsList),
                Val(CredsString)}

\* every key absent, present but empty, or present with its well-formed value
PresenceSets ==
    [OPENAI_API_KEY : {Absent, Val(<<>>), Val(OpenAIGood)},
     PERPLEXITY_API_KEY : {Absent, Val(<<>>), Val(PplxGood)},
     GEMINI_API_KEY : {Absent, Val(<<>>), Val(GeminiKey)},
     GOOGLE_SHEETS_SPREADSHEET_ID : {Absent, Val(<<>>), Val(SheetId)},
     GOOGLE_SERVICE_ACCOUNT_CREDENTIALS : {Absent, Val(<<>>), Val(CredsWithEmail)}]

GoodSecrets ==
    [OPENAI_API_KEY |-> Val(OpenAIGood),
     PERPLEXITY_API_KEY |-> Val(PplxGood),
     GEMINI_API_KEY |-> Val(GeminiKey),
     GOOGLE_SHEETS_SPREADSHEET_ID |-> Val(SheetId),
     GOOGLE_SERVICE_ACCOUNT_CREDENTIALS |-> Val(CredsWithEmail)]

\* all five keys present and non-empty, one of them in any of its formats
FormatSets ==
    {[GoodSecrets EXCEPT !.OPENAI_API_KEY = v] : v \in OpenAIValues}
    \cup {[GoodSecrets EXCEPT !.PERPLEXITY_API_KEY = v] : v \in PplxValues}
    \cup {[GoodSecrets EXCEPT !.GOOGLE_SERVICE_ACCOUNT_CREDENTIALS = v] :
            v \in CredsValues}

SecretSets == PresenceSets \cup FormatSets

\* st.secrets.get(key, '')
SecretGet(sec, k) == IF sec[k].present THEN sec[k].value ELSE <<>>

(***************************************************************************)
(* check_streamlit_secrets                                                 *)
(***************************************************************************)
required_secrets ==
    <<"OPENAI_API_KEY", "PERPLEXITY_API_KEY", "GEMINI_API_KEY",
      "GOOGLE_SHEETS_SPREADSHEET_ID", "GOOGLE_SERVICE_ACCOUNT_CREDENTIALS">>

\* `secret in st.secrets and st.secrets[secret]`
IsConfiguredAlwaysPresent(sec, k) == sec[k].present
IsConfigured(sec, k) == sec[k].present /\ Truthy(sec[k].value)

check_streamlit_secrets(sec) ==
    LET configured == SelectSeq(required_secrets, LAMBDA k : IsConfigured(sec, k))
        missing == SelectSeq(required_secrets, LAMBDA k : ~IsConfigured(sec, k))
    IN  [all_configured |-> Len(missing) = 0,
         missing_secrets |-> missing,
         configured_secrets |-> configured]

(***************************************************************************)
(* json.loads on the credentials blob                                      *)
(***************************************************************************)
NumberTokens == {"123"}
StringTokens == {"\"client_email\"", "\"type\"", "\"x@y.com\""}

\* the text of a JSON string token
Unquote(t) ==
    CASE t = "\"client_email\"" -> "client_email"
      [] t = "\"type\"" -> "type"
      [] t = "\"x@y.com\"" -> "x@y.com"

JSONDecodeError == [ok |-> FALSE]

json_loads(s) ==
    CASE Len(s) = 1 /\ s[1] \in NumberTokens ->
            [ok |-> TRUE, type |-> "int"]
      [] Len(s) = 1 /\ s[1] \in StringTokens ->
            [ok |-> TRUE, type |-> "str", text |-> Unquote(s[1])]
      [] s = <<"[", "]">> ->
            [ok |-> TRUE, type |-> "list"]
      [] s = <<"{", "}">> ->
            [ok |-> TRUE, type |-> "dict", items |-> <<>>]
      [] /\ Len(s) = 5
         /\ s[1] = "{" /\ s[2] \in StringTokens /\ s[3] = ":"
         /\ s[4] \in StringTokens /\ s[5] = "}" ->
            [ok |-> TRUE, type |-> "dict",
             items |-> [k \in {Unquote(s[2])} |-> Unquote(s[4])]]
      [] OTHER -> JSONDecodeError

\* `key in data` for a parsed value: "TypeError" when data is not a container
Contains(data, key) ==
    CASE data.type = "dict" -> IF key \in DOMAIN data.items THEN "yes" ELSE "no"
      [] data.type = "list" -> "no"
      [] data.type = "str" -> IF data.text = key THEN "yes" ELSE "no"
      [] OTHER -> "TypeError"

\* `data[key]`: subscripting anything but a dict with a str raises TypeError
Subscript(data, key) ==
    IF data.type = "dict" THEN [raised |-> FALSE, value |-> data.items[key]]
    ELSE [raised |-> TRUE, value |-> ""]

(***************************************************************************)
(* create_config_from_secrets                                              *)
(***************************************************************************)
Msg(level, id) == [level |-> level, id |-> id]
MsgArg(level, id, arg) == [level |-> level, id |-> id, arg |-> arg]

HasMsg(msgs, id) == \E i \in 1..Len(msgs) : msgs[i].id = id

\* the soft checks of the three keys and of the spreadsheet id
KeyWarnings(openai_key, perplexity_key, spreadsheet_id) ==
    (IF ~StartsWith(openai_key, SkPrefix)
        THEN <<Msg("warning", "openai_format")>> ELSE <<>>)
    \o (IF ~StartsWith(perplexity_key, PplxPrefix)
        THEN <<Msg("warning", "perplexity_format")>> ELSE <<>>)
    \o (IF Truthy(perplexity_key) /\ Len(perplexity_key) < PplxMinLen
        THEN <<Msg("warning", "perplexity_short")>> ELSE <<>>)
    \o (IF ~Truthy(spreadsheet_id)
        THEN <<Msg("warning", "spreadsheet_missing"), Msg("info", "spreadsheet_hint")>>
        ELSE <<MsgArg("success", "spreadsheet_id", spreadsheet_id)>>)

\* the credentials check once json.loads has returned creds_data
CredsParsed(creds_data, has) ==
    CASE has = "TypeError" -> [raised |-> TRUE, msgs |-> <<>>]
      [] has = "no" ->
           [raised |-> FALSE, msgs |-> <<Msg("warning", "creds_no_client_email")>>]
      [] has = "yes" ->
           IF Subscript(creds_data, "client_email").raised
           THEN [raised |-> TRUE, msgs |-> <<>>]
           ELSE [raised |-> FALSE,
                 msgs |-> <<MsgArg("success", "creds_email",
                                   Subscript(creds_data, "client_email").value)>>]

CredsLoaded(creds_data) ==
    IF ~creds_data.ok
    THEN [raised |-> FALSE, msgs |-> <<Msg("warning", "creds_not_json")>>]
    ELSE CredsParsed(creds_data, Contains(creds_data, "client_email"))

\* the credentials check: [raised, msgs]
CredsCheck(credentials_json) ==
    IF ~Truthy(credentials_json)
    THEN [raised |-> FALSE, msgs |-> <<Msg("warning", "creds_missing")>>]
    ELSE CredsLoaded(json_loads(credentials_json))

\* the rendered config.yaml: the four interpolated values and the fixed text
FixedFields ==
    [openai_model |-> "gpt-3.5-turbo", perplexity_model |-> "sonar",
     gemini_model |-> "gemini-pro", max_tokens |-> 1000, timeout |-> 30,
     worksheet_name |-> "Brand_Monitoring_New",
     credentials_file |-> "credentials.json", batch_size |-> 100,
     target_brand |-> "DataTobiz",
     brand_variations |-> <<"DataTobiz", "Data Tobiz", "data tobiz", "DATATOBIZ",
                            "DataToBiz", "Data-Tobiz", "datatobiz.com">>,
     max_retries |-> 3, timeout_per_agent |-> 60, max_position |-> 20,
     context_window |-> 200]

RenderKeyInFixed(openai_key, perplexity_key, gemini_key, spreadsheet_id) ==
    [openai_api_key |-> openai_key,
     perplexity_api_key |-> perplexity_key,
     gemini_api_key |-> gemini_key,
     spreadsheet_id |-> spreadsheet_id,
     fixed |-> [FixedFields EXCEPT !.perplexity_model = perplexity_key]]

Render(openai_key, perplexity_key, gemini_key, spreadsheet_id) ==
    [openai_api_key |-> openai_key,
     perplexity_api_key |-> perplexity_key,
     gemini_api_key |-> gemini_key,
     spreadsheet_id |-> spreadsheet_id,
     fixed |-> FixedFields]

\* the f-string, reached unless the credentials check raised
Compiled(keymsgs, creds, content) ==
    IF creds.raised
    THEN [raised |-> TRUE, msgs |-> keymsgs \o creds.msgs, config_content |-> None]
    ELSE [raised |-> FALSE, msgs |-> keymsgs \o creds.msgs,
          config_content |-> content]

\* [raised, msgs, config_content]; raised: an exception leaves the function
create_config_from_secrets(sec) ==
    Compiled(KeyWarnings(SecretGet(sec, "OPENAI_API_KEY"),
                         SecretGet(sec, "PERPLEXITY_API_KEY"),
                         SecretGet(sec, "GOOGLE_SHEETS_SPREADSHEET_ID")),
             CredsCheck(SecretGet(sec, "GOOGLE_SERVICE_ACCOUNT_CREDENTIALS")),
             Render(SecretGet(sec, "OPENAI_API_KEY"),
                    SecretGet(sec, "PERPLEXITY_API_KEY"),
                    SecretGet(sec, "GEMINI_API_KEY"),
                    SecretGet(sec, "GOOGLE_SHEETS_SPREADSHEET_ID")))

(***************************************************************************)
(* create_credentials_file and create_api                                  *)
(***************************************************************************)
\* what the environment does to the body of create_api
Envs == {"ok", "cred_write_fails", "ctor_raises"}

\* [path, msgs, written]: open(...)/write raising is caught and shown
create_credentials_file(sec, env) ==
    IF Truthy(SecretGet(sec, "GOOGLE_SERVICE_ACCOUNT_CREDENTIALS"))
    THEN IF env = "cred_write_fails"
         THEN [path |-> None, written |-> {},
               msgs |-> <<Msg("error", "credentials_file_error")>>]
         ELSE [path |-> "credentials.json", written |-> {"credentials"},
               msgs |-> <<>>]
    ELSE [path |-> None, written |-> {}, msgs |-> <<>>]

\* the gate at the head of create_api
GateNever(st) == TRUE
Gate(st) == st.all_configured

ApiResult(value, written, msgs) ==
    [value |-> value, written |-> written, attr |-> value # None, msgs |-> msgs]

\* create_api from the credentials file on: the file, the constructor
Construct(msgs, cred, env) ==
    IF cred.path = None
    THEN ApiResult(None, {"config"} \cup cred.written,
                   msgs \o cred.msgs \o <<Msg("error", "credentials_file_failed")>>)
    ELSE IF env = "ctor_raises"
    THEN ApiResult(None, {"config"} \cup cred.written,
                   msgs \o cred.msgs
                   \o <<MsgArg("error", "create_api_failed", "ConstructorError")>>)
    ELSE ApiResult("api", {"config"} \cup cred.written, msgs \o cred.msgs)

\* create_api from the rendered config on: an exception of the compiler is
\* caught by the function's except clause before any file is written
Compile(cfg, cred, env) ==
    IF cfg.raised
    THEN ApiResult(None, {},
                   cfg.msgs \o <<MsgArg("error", "create_api_failed", "TypeError")>>)
    ELSE Construct(cfg.msgs, cred, env)

\* the body of create_api: [value, msgs, written, attr]
create_api_body(sec, env) ==
    IF ~Gate(check_streamlit_secrets(sec))
    THEN ApiResult(None, {}, <<Msg("error", "missing_required_secrets")>>)
    ELSE Compile(create_config_from_secrets(sec),
                 create_credentials_file(sec, env), env)

EmptyCache == [filled |-> FALSE, value |-> None, msgs |-> <<>>]

\* @st.cache_resource: the body runs on a miss, under the cache's compute lock;
\* a hit returns the stored value and replays the stored messages
CacheHitNever(c) == FALSE
CacheHit(c) == c.filled

Computed(b) ==
    [value |-> b.value, msgs |-> b.msgs,
     cache |-> [filled |-> TRUE, value |-> b.value, msgs |-> b.msgs],
     written |-> b.written, attr |-> b.attr, ran |-> TRUE]

\* [value, msgs, cache, written, attr, ran]
create_api(c, sec, env) ==
    IF CacheHit(c)
    THEN [value |-> c.value, msgs |-> c.msgs, cache |-> c, written |-> {},
          attr |-> FALSE, ran |-> FALSE]
    ELSE Computed(create_api_body(sec, env))

(***************************************************************************)
(* The status payload of test_connections and the two health handlers      *)
(***************************************************************************)
\* a dict is a function on its keys; an ordered mapping (agents,
\* stage2_features) is a sequence of [name, ...] items with distinct names
EmptyDict == <<>>
Entry(k, v) == [x \in {k} |-> v]
Merge(f, g) == [k \in DOMAIN f \cup DOMAIN g |-> IF k \in DOMAIN f THEN f[k] ELSE g[k]]
Opt(k, V) == {EmptyDict} \cup {Entry(k, v) : v \in V}

\* for agent_name, agent_info in status.get('agents', {}).items(), sidebar
SidebarAgent(item) ==
    IF Get(item.info, "healthy", FALSE)
    THEN [id |-> "agent", name |-> item.name, online |-> TRUE]
    ELSE [id |-> "agent", name |-> item.name, online |-> FALSE]

\* the same loop of the detailed health check
DetailedAgentNoReason(item) ==
    IF Get(item.info, "healthy", FALSE)
    THEN [id |-> "agent", name |-> item.name, online |-> TRUE,
          detail |-> Get(item.info, "model", "Unknown")]
    ELSE [id |-> "agent", name |-> item.name, online |-> FALSE,
          detail |-> "Failed"]
DetailedAgent(item) ==
    IF Get(item.info, "healthy", FALSE)
    THEN [id |-> "agent", name |-> item.name, online |-> TRUE,
          detail |-> Get(item.info, "model", "Unknown")]
    ELSE [id |-> "agent", name |-> item.name, online |-> FALSE,
          detail |-> Get(item.info, "error", "Failed")]

\* the loops over an ordered mapping: one line per item, in order
SidebarAgents(q) == [i \in 1..Len(q) |-> SidebarAgent(q[i])]
DetailedAgents(q) == [i \in 1..Len(q) |-> DetailedAgent(q[i])]

SidebarStorage(status) ==
    LET storage_info == Get(Get(status, "storage", EmptyDict), "google_sheets", EmptyDict)
    IN  [id |-> "storage", online |-> Get(storage_info, "available", FALSE)]

SidebarAnalytics(status) ==
    LET analytics_info == Get(Get(status, "analytics", EmptyDict), "engine", EmptyDict)
    IN  [id |-> "analytics", online |-> Get(analytics_info, "available", FALSE)]

DetailedStorage(status) ==
    LET storage_info == Get(Get(status, "storage", EmptyDict), "google_sheets", EmptyDict)
    IN  IF Get(storage_info, "available", FALSE)
        THEN [id |-> "storage", online |-> TRUE,
              detail |-> Get(storage_info, "records_found", "Unknown")]
        ELSE [id |-> "storage", online |-> FALSE,
              detail |-> Get(storage_info, "error", "Not available")]

DetailedAnalytics(status) ==
    LET analytics_info == Get(Get(status, "analytics", EmptyDict), "engine", EmptyDict)
    IN  IF Get(analytics_info, "available", FALSE)
        THEN [id |-> "analytics", online |-> TRUE, detail |-> "Ready"]
        ELSE [id |-> "analytics", online |-> FALSE,
              detail |-> Get(analytics_info, "reason", "Not available")]

Feature(item) == [id |-> "feature", name |-> item.name, online |-> item.enabled]
FeatureLines(q) == [i \in 1..Len(q) |-> Feature(q[i])]

\* the branch taken on the payload: status.get('success', False)
SuccessFlag(status) == Get(status, "success", FALSE)

\* the failure line of either handler
FailureLineUnknown(id, status) == <<MsgArg("error", id, "Unknown error")>>
FailureLine(id, status) == <<MsgArg("error", id, Get(status, "error", "Unknown error"))>>

\* the except clause of either handler
RaisedLineEscapes(id, o) == <<>>
RaisedLine(id, o) == <<MsgArg("error", id, o.err)>>

\* sidebar "Test Connections": [msgs, reads] (reads: top-level keys read)
SidebarReport(o) ==
    IF o.raised
    THEN [msgs |-> RaisedLine("connection_test_failed", o), reads |-> {}]
    ELSE IF SuccessFlag(o.status)
    THEN [msgs |-> <<Msg("success", "all_connections_successful")>>
                   \o SidebarAgents(Get(o.status, "agents", <<>>))
                   \o <<SidebarStorage(o.status), SidebarAnalytics(o.status)>>,
          reads |-> {"success", "agents", "storage", "analytics"}]
    ELSE [msgs |-> FailureLine("connection_test_failed", o.status),
          reads |-> {"success", "error"}]

\* "Run Detailed Health Check": [msgs, reads]
DetailedReport(o) ==
    IF o.raised
    THEN [msgs |-> RaisedLine("health_check_failed", o), reads |-> {}]
    ELSE IF SuccessFlag(o.status)
    THEN [msgs |-> <<Msg("success", "all_systems_operational")>>
                   \o DetailedAgents(Get(o.status, "agents", <<>>))
                   \o <<DetailedStorage(o.status), DetailedAnalytics(o.status)>>
                   \o FeatureLines(Get(o.status, "stage2_features", <<>>)),
          reads |-> {"success", "agents", "storage", "analytics", "stage2_features"}]
    ELSE [msgs |-> FailureLine("health_check_failed", o.status),
          reads |-> {"success", "error"}]

Handlers == {"sidebar", "detailed"}

HealthReport(handler, o) ==
    IF handler = "sidebar" THEN SidebarReport(o) ELSE DetailedReport(o)

\* ---- the payloads the checks draw from
AllAgentNames == <<"a", "b", "c", "d">>
AgentNames == {AllAgentNames[i] : i \in 1..MaxAgents}

AgentInfos ==
    {[healthy |-> TRUE, model |-> "sonar"],
     [healthy |-> FALSE, error |-> "x"],
     [healthy |-> FALSE],
     [error |-> "x"],
     EmptyDict}

Distinct(q) == \A i, j \in 1..Len(q) : i # j => q[i].name # q[j].name

AgentMaps ==
    UNION {{q \in [1..n -> [name : AgentNames, info : AgentInfos]] : Distinct(q)} :
            n \in 0..MaxAgents}

StorageOk == [google_sheets |-> [available |-> TRUE, records_found |-> "12"]]
AnalyticsOff == [engine |-> [available |-> FALSE, reason |-> "disabled"]]
Features ==
    <<[name |-> "ranking_detection", enabled |-> TRUE],
      [name |-> "cost_tracking", enabled |-> FALSE]>>

Payloads ==
    {Merge(s, Merge(e, Merge(a, Merge(st, Merge(an, f))))) :
        s \in Opt("success", {TRUE, FALSE}), e \in Opt("error", {"timeout"}),
        a \in Opt("agents", AgentMaps), st \in Opt("storage", {StorageOk}),
        an \in Opt("analytics", {AnalyticsOff}),
        f \in Opt("stage2_features", {Features})}

Returned(status) == [raised |-> FALSE, status |-> status]
Raised(err) == [raised |-> TRUE, err |-> err]

TestOutcomes == {Returned(p) : p \in Payloads} \cup {Raised("boom")}

\* the outcomes of test_connections the script runs of the process model see
TwoAgents ==
    <<[name |-> "a", info |-> [healthy |-> TRUE, model |-> "sonar"]],
      [name |-> "b", info |-> [healthy |-> FALSE, error |-> "x"]]>>
RunTestOutcomes ==
    {Raised("boom"),
     Returned([success |-> FALSE, error |-> "timeout", agents |-> TwoAgents]),
     Returned([success |-> TRUE, agents |-> TwoAgents, storage |-> StorageOk,
               analytics |-> AnalyticsOff, stage2_features |-> Features])}

(***************************************************************************)
(* monitor_queries and the "Start Brand Monitoring" handler                *)
(***************************************************************************)
PyNone == [isNone |-> TRUE]
PyDict(d) == [isNone |-> FALSE, dict |-> d]

\* `if results` / `if st.session_state.last_results`
TruthyResult(r) == ~r.isNone /\ DOMAIN r.dict # {}

MonitorOutcomes ==
    {Raised("boom"),
     [raised |-> FALSE, result |-> PyNone],
     [raised |-> FALSE, result |-> PyDict(EmptyDict)],
     [raised |-> FALSE, result |-> PyDict([success |-> FALSE, error |-> "quota"])],
     [raised |-> FALSE, result |-> PyDict([success |-> TRUE, summary |-> "s1"])]}

MonitorArgsSequential(search_query) ==
    [queries |-> <<search_query>>, mode |-> "sequential",
     enable_ranking |-> TRUE, enable_analytics |-> TRUE]

\* the arguments of the one monitor_queries call site
MonitorArgs(search_query) ==
    [queries |-> <<search_query>>, mode |-> "parallel",
     enable_ranking |-> TRUE, enable_analytics |-> TRUE]

\* [msgs, stored, results]: stored says whether last_results was assigned
MonitorReport(o) ==
    IF o.raised
    THEN [msgs |-> <<MsgArg("error", "monitoring_failed", o.err)>>,
          stored |-> FALSE, results |-> PyNone]
    ELSE LET results == o.result
             head == <<Msg("success", "monitoring_completed")>>
         IN  IF TruthyResult(results) /\ Get(results.dict, "success", FALSE)
             THEN [msgs |-> head \o <<Msg("results", "results_shown"),
                                      Msg("download", "download_json")>>,
                   stored |-> TRUE, results |-> results]
             ELSE IF results.isNone
             THEN \* None.get(...) raises AttributeError, caught by the handler
                  [msgs |-> head \o <<MsgArg("error", "monitoring_failed",
                                             "AttributeError")>>,
                   stored |-> TRUE, results |-> results]
             ELSE [msgs |-> head \o <<MsgArg("error", "monitoring_failed",
                                             Get(results.dict, "error",
                                                 "Unknown error"))>>,
                   stored |-> TRUE, results |-> results]

(***************************************************************************)
(* The process: sessions running the script against the shared cache       *)
(***************************************************************************)
NoReport == [msgs |-> <<>>, reads |-> {}]

Click(button, search_query) == [button |-> button, query |-> search_query]

Buttons == {"none", "test_sidebar", "monitor", "health"}
Queries == {<<>>, <<"q">>}
InitOutcomes == {"true", "false", "raise"}

\* an entry of the screen: the session, the step of its run, what the step
\* was given (the click, or what the awaited call did) and what it showed
Shown(s, step, input, msgs) ==
    [session |-> s, step |-> step, input |-> input, msgs |-> msgs]

Init ==
    /\ secrets \in SecretSets
    /\ cache = EmptyCache
    /\ files = {}
    /\ tempAttr = FALSE
    /\ api = [s \in Sessions |-> None]
    /\ initialized = [s \in Sessions |-> FALSE]
    /\ last_results = [s \in Sessions |-> PyNone]
    /\ pc = [s \in Sessions |-> "idle"]
    /\ out = Shown(0, "none", "none", <<>>)
    /\ bodyRuns = 0
    /\ initCalls = 0
    /\ firstCall = "none"
    /\ runs = 0
    /\ hin = [handler |-> "sidebar", outcome |-> Raised("boom"), done |-> TRUE]
    /\ hrep = NoReport

NoteCall(method) == IF firstCall = "none" THEN method ELSE firstCall

\* the hard gate of main
MainGate(st) == st.all_configured

\* `if not st.session_state.initialized:` before the awaited initialize()
NeedsInit(s) == ~initialized[s]

\* main() from `if st.session_state.api is None: return` on, with newApi
\* the session's api and cmsgs what create_api has shown
MainFromApi(s, button, search_query, newApi, cmsgs) ==
    IF newApi = None
    THEN /\ out' = Shown(s, "main", Click(button, search_query),
                         cmsgs \o <<Msg("error", "failed_to_create")>>)
         /\ UNCHANGED <<pc, initCalls, firstCall>>
    ELSE IF NeedsInit(s)
    THEN /\ pc' = [pc EXCEPT ![s] = "initialize"]
         /\ initCalls' = initCalls + 1
         /\ firstCall' = NoteCall("initialize")
         /\ out' = Shown(s, "main", Click(button, search_query), cmsgs)
    ELSE /\ UNCHANGED initCalls
         /\ CASE button = "test_sidebar" ->
                   /\ pc' = [pc EXCEPT ![s] = "test_sidebar"]
                   /\ firstCall' = NoteCall("test_connections")
                   /\ out' = Shown(s, "main", Click(button, search_query), cmsgs)
              [] button = "health" ->
                   /\ pc' = [pc EXCEPT ![s] = "test_detailed"]
                   /\ firstCall' = NoteCall("test_connections")
                   /\ out' = Shown(s, "main", Click(button, search_query), cmsgs)
              [] button = "monitor" /\ Truthy(search_query) ->
                   /\ pc' = [pc EXCEPT ![s] = "monitor"]
                   /\ firstCall' = NoteCall("monitor_queries")
                   /\ out' = Shown(s, "main", Click(button, search_query),
                        cmsgs \o <<MsgArg("call", "monitor_queries",
                                          MonitorArgs(search_query))>>)
              [] button = "monitor" /\ ~Truthy(search_query) ->
                   /\ out' = Shown(s, "main", Click(button, search_query),
                                   cmsgs \o <<Msg("warning", "enter_query")>>)
                   /\ UNCHANGED <<pc, firstCall>>
              [] OTHER ->
                   /\ out' = Shown(s, "main", Click(button, search_query), cmsgs)
                   /\ UNCHANGED <<pc, firstCall>>

\* main() at `st.session_state.api = create_api()`, c the result of the call
MainCreate(s, button, search_query, c) ==
    /\ api' = [api EXCEPT ![s] = c.value]
    /\ cache' = c.cache
    /\ files' = files \cup c.written
    /\ tempAttr' = IF c.ran THEN c.attr ELSE tempAttr
    /\ bodyRuns' = IF c.ran THEN bodyRuns + 1 ELSE bodyRuns
    /\ MainFromApi(s, button, search_query, c.value, c.msgs)

\* main(), from the top to its first awaited call or to its end.
\* A button can have been clicked only if the previous run of the session
\* rendered it, which is so only when the session is initialized.
MainRun(s, button, search_query, env) ==
    /\ pc[s] = "idle"
    /\ runs < MaxRuns
    /\ button \in (IF initialized[s] THEN Buttons ELSE {"none"})
    /\ runs' = runs + 1
    /\ UNCHANGED <<secrets, initialized, last_results, hin, hrep>>
    /\ IF ~MainGate(check_streamlit_secrets(secrets))
       THEN /\ out' = Shown(s, "main", Click(button, search_query),
                            <<MsgArg("error", "configuration_required",
                                     check_streamlit_secrets(secrets))>>)
            /\ UNCHANGED <<cache, files, tempAttr, api, pc, bodyRuns,
                           initCalls, firstCall>>
       ELSE IF api[s] = None
       THEN MainCreate(s, button, search_query, create_api(cache, secrets, env))
       ELSE /\ UNCHANGED <<api, cache, files, tempAttr, bodyRuns>>
            /\ MainFromApi(s, button, search_query, api[s], <<>>)

\* the clean-up of initialize_api_async after initialize() returned:
\* [files, attr]
CleanupNone(fs, attr) == [files |-> fs, attr |-> attr]
Cleanup(fs, attr) ==
    IF attr THEN [files |-> fs \ {"config"}, attr |-> FALSE]
    ELSE [files |-> fs, attr |-> attr]

\* the value initialize_api_async hands back to main
InitResultTrue(r) == TRUE
InitResult(r) == r = "true"

\* api.initialize() returns or raises; initialize_api_async and the rest of main
InitializeReturns(s, r) ==
    /\ pc[s] = "initialize"
    /\ pc' = [pc EXCEPT ![s] = "idle"]
    /\ LET clean == IF r = "raise" THEN CleanupNone(files, tempAttr)
                    ELSE Cleanup(files, tempAttr)
           result == InitResult(r)
       IN  /\ files' = clean.files
           /\ tempAttr' = clean.attr
           /\ initialized' = [initialized EXCEPT ![s] = result]
           /\ out' = Shown(s, "initialize", r,
                 (IF r = "raise"
                    THEN <<MsgArg("error", "failed_to_initialize_api", "boom")>>
                    ELSE <<>>)
                 \o (IF ~result THEN <<Msg("error", "failed_to_initialize")>>
                     ELSE <<>>))
    /\ UNCHANGED <<secrets, cache, api, last_results, bodyRuns, initCalls,
                   firstCall, runs, hin, hrep>>

TestConnectionsReturnsStoring(s, o) ==
    /\ pc[s] \in {"test_sidebar", "test_detailed"}
    /\ pc' = [pc EXCEPT ![s] = "idle"]
    /\ out' = Shown(s, pc[s], o,
                    HealthReport(IF pc[s] = "test_sidebar" THEN "sidebar"
                                 ELSE "detailed", o).msgs)
    /\ last_results' = IF o.raised THEN last_results
                       ELSE [last_results EXCEPT ![s] = PyDict(o.status)]
    /\ UNCHANGED <<secrets, cache, files, tempAttr, api, initialized,
                   bodyRuns, initCalls, firstCall, runs, hin, hrep>>

\* test_connections() returns or raises; the handler that called it
TestConnectionsReturns(s, o) ==
    /\ pc[s] \in {"test_sidebar", "test_detailed"}
    /\ pc' = [pc EXCEPT ![s] = "idle"]
    /\ out' = Shown(s, pc[s], o,
                    HealthReport(IF pc[s] = "test_sidebar" THEN "sidebar"
                                 ELSE "detailed", o).msgs)
    /\ UNCHANGED <<secrets, cache, files, tempAttr, api, initialized,
                   last_results, bodyRuns, initCalls, firstCall, runs, hin, hrep>>

\* monitor_queries() returns or raises; the "Start Brand Monitoring" handler
MonitorQueriesReturns(s, o) ==
    /\ pc[s] = "monitor"
    /\ pc' = [pc EXCEPT ![s] = "idle"]
    /\ LET rep == MonitorReport(o)
       IN  /\ out' = Shown(s, "monitor", o, rep.msgs)
           /\ last_results' = IF rep.stored
                              THEN [last_results EXCEPT ![s] = rep.results]
                              ELSE last_results
    /\ UNCHANGED <<secrets, cache, files, tempAttr, api, initialized,
                   bodyRuns, initCalls, firstCall, runs, hin, hrep>>

Next ==
    \/ \E s \in Sessions, b \in Buttons, q \in Queries, e \in Envs :
            MainRun(s, b, q, e)
    \/ \E s \in Sessions, r \in InitOutcomes : InitializeReturns(s, r)
    \/ \E s \in Sessions, o \in RunTestOutcomes : TestConnectionsReturns(s, o)
    \/ \E s \in Sessions, o \in MonitorOutcomes : MonitorQueriesReturns(s, o)

Spec == Init /\ [][Next]_vars

(***************************************************************************)
(* The health-check aggregation alone, over every payload                  *)
(***************************************************************************)
InitHealth ==
    /\ hin \in [handler : Handlers, outcome : TestOutcomes, done : {FALSE}]
    /\ hrep = NoReport
    /\ secrets = GoodSecrets
    /\ cache = EmptyCache
    /\ files = {}
    /\ tempAttr = FALSE
    /\ api = [s \in Sessions |-> None]
    /\ initialized = [s \in Sessions |-> FALSE]
    /\ last_results = [s \in Sessions |-> PyNone]
    /\ pc = [s \in Sessions |-> "idle"]
    /\ out = Shown(0, "none", "none", <<>>)
    /\ bodyRuns = 0
    /\ initCalls = 0
    /\ firstCall = "none"
    /\ runs = 0

Aggregate ==
    /\ ~hin.done
    /\ hrep' = HealthReport(hin.handler, hin.outcome)
    /\ hin' = [hin EXCEPT !.done = TRUE]
    /\ UNCHANGED procVars

NextHealth == Aggregate

SpecHealth == InitHealth /\ [][NextHealth]_vars

(***************************************************************************)
(* Properties                                                              *)
(***************************************************************************)
RequiredKeys ==
    {"OPENAI_API_KEY", "PERPLEXITY_API_KEY", "GEMINI_API_KEY",
     "GOOGLE_SHEETS_SPREADSHEET_ID", "GOOGLE_SERVICE_ACCOUNT_CREDENTIALS"}

Range(q) == {q[i] : i \in 1..Len(q)}

PresentNonEmpty(sec, k) == sec[k].present /\ sec[k].value # <<>>
AllFiveSet(sec) == \A k \in RequiredKeys : PresentNonEmpty(sec, k)

\* the partition of the five keys a status record states
IsPartition(st, sec) ==
    /\ Range(st.configured_secrets) \cap Range(st.missing_secrets) = {}
    /\ Range(st.configured_secrets) \cup Range(st.missing_secrets) = RequiredKeys
    /\ Len(st.configured_secrets) + Len(st.missing_secrets) = Cardinality(RequiredKeys)
    /\ \A k \in RequiredKeys :
          k \in Range(st.configured_secrets) <=> PresentNonEmpty(sec, k)
    /\ Range(st.missing_secrets) = {k \in RequiredKeys : ~PresentNonEmpty(sec, k)}
    /\ st.all_configured <=> (st.missing_secrets = <<>>)

ShowsConfigRequired ==
    /\ out.step = "main"
    /\ Len(out.msgs) = 1
    /\ out.msgs[1].id = "configuration_required"

\* C1: for every assignment of the five keys (absent, empty, non-empty) the
\* status check_streamlit_secrets returns, and the one main puts on the
\* screen, splits the five keys into disjoint configured and missing lists
\* that cover them; configured holds exactly the keys present with a
\* non-empty value, missing the others, and all_configured says missing is
\* empty.
C1_Partition ==
    /\ IsPartition(check_streamlit_secrets(secrets), secrets)
    /\ ShowsConfigRequired => IsPartition(out.msgs[1].arg, secrets)

C1_Witness ==
    /\ ShowsConfigRequired
    /\ ~secrets["OPENAI_API_KEY"].present
    /\ secrets["GEMINI_API_KEY"].present
    /\ secrets["GEMINI_API_KEY"].value = <<>>
    /\ PresentNonEmpty(secrets, "PERPLEXITY_API_KEY")
    /\ out.msgs[1].arg.configured_secrets # <<>>

\* C2: while one of the five secrets is missing or empty, nothing gets past
\* the check: no transient file exists, create_api would return None and
\* write nothing, initialize() has not been called, and every session has
\* api = None and initialized = False.
C2_HardGate ==
    ~AllFiveSet(secrets) =>
        /\ files = {}
        /\ tempAttr = FALSE
        /\ cache.value = None
        /\ initCalls = 0
        /\ firstCall = "none"
        /\ \A s \in Sessions :
              api[s] = None /\ initialized[s] = FALSE /\ pc[s] = "idle"
        /\ \A e \in Envs :
              /\ create_api(cache, secrets, e).value = None
              /\ create_api(cache, secrets, e).written = {}

C2_Witness ==
    /\ ~AllFiveSet(secrets)
    /\ runs > 1
    /\ ShowsConfigRequired

\* the failure create_api shows when its try block raised
CompileFailed(msgs) ==
    \E i \in 1..Len(msgs) :
        msgs[i].id = "create_api_failed" /\ msgs[i].arg = "TypeError"

\* C3: with all five secrets present and non-empty the compiler yields a
\* configuration whatever the format of the values, and create_api, once
\* it has run, has not failed in the compile step.
C3_AlwaysCompiles ==
    (AllFiveSet(secrets) /\ cache.filled) => ~CompileFailed(cache.msgs)

\* C4: once the create/initialize sequence has ended (create_api returned
\* no api, or initialize() has returned or raised) no transient file is left.
C4_FilesRemoved ==
    /\ (cache.filled /\ cache.value = None) => files = {}
    /\ out.step = "initialize" => files = {}

\* ---- the health-check aggregation (SpecHealth)
SubStructures == {"agents", "storage", "analytics", "stage2_features"}

FailureId(handler) ==
    IF handler = "sidebar" THEN "connection_test_failed" ELSE "health_check_failed"

Reported == hin.done /\ ~hin.outcome.raised

SuccessFalseOrAbsent(status) ==
    "success" \notin DOMAIN status \/ status["success"] = FALSE

\* C5: when the payload's success flag is false or absent, either handler
\* shows one line, the failure with the payload's top-level error string
\* ("Unknown error" when the payload has none), and reads none of agents,
\* storage, analytics, stage2_features.
C5_FailureSurfacesError ==
    (Reported /\ SuccessFalseOrAbsent(hin.outcome.status)) =>
        /\ Len(hrep.msgs) = 1
        /\ hrep.msgs[1].level = "error"
        /\ hrep.msgs[1].id = FailureId(hin.handler)
        /\ hrep.msgs[1].arg =
              (IF "error" \in DOMAIN hin.outcome.status
               THEN hin.outcome.status["error"] ELSE "Unknown error")
        /\ hrep.reads \cap SubStructures = {}

C5_Witness ==
    /\ Reported
    /\ DOMAIN hin.outcome.status =
          {"success", "error", "agents", "storage", "analytics", "stage2_features"}
    /\ hin.outcome.status["success"] = FALSE
    /\ Len(hin.outcome.status["agents"]) > 0
    /\ hrep.msgs[1].arg = "timeout"

ReportedSuccess ==
    /\ Reported
    /\ "success" \in DOMAIN hin.outcome.status
    /\ hin.outcome.status["success"] = TRUE

PayloadAgents ==
    IF "agents" \in DOMAIN hin.outcome.status
    THEN hin.outcome.status["agents"] ELSE <<>>

AgentLines == SelectSeq(hrep.msgs, LAMBDA m : m.id = "agent")

Healthy(info) == "healthy" \in DOMAIN info /\ info["healthy"] = TRUE

\* one line per agent, in the mapping's order, online iff healthy is true
AgentsClassified ==
    /\ Len(AgentLines) = Len(PayloadAgents)
    /\ \A i \in 1..Len(PayloadAgents) :
          /\ AgentLines[i].name = PayloadAgents[i].name
          /\ AgentLines[i].online = Healthy(PayloadAgents[i].info)

\* C6 as stated: on success each handler reports one entry per agent in
\* insertion order, online when healthy is true, and offline together with
\* the agent's error text when healthy is false or absent.
C6_OfflineWithReason ==
    ReportedSuccess =>
        /\ AgentsClassified
        /\ \A i \in 1..Len(PayloadAgents) :
              ~Healthy(PayloadAgents[i].info) =>
                  /\ "detail" \in DOMAIN AgentLines[i]
                  /\ "error" \in DOMAIN PayloadAgents[i].info =>
                        AgentLines[i].detail = PayloadAgents[i].info["error"]

\* C6 amended: on success each handler reports one entry per agent in
\* insertion order, online iff healthy is true; the detailed health check
\* reports an offline agent with its error text ("Failed" when the payload
\* gives none), the sidebar handler reports an offline agent by name alone.
C6_AgentsInOrder ==
    ReportedSuccess =>
        /\ AgentsClassified
        /\ \A i \in 1..Len(PayloadAgents) :
              ~Healthy(PayloadAgents[i].info) =>
                  IF hin.handler = "detailed"
                  THEN /\ "detail" \in DOMAIN AgentLines[i]
                       /\ AgentLines[i].detail =
                             (IF "error" \in DOMAIN PayloadAgents[i].info
                              THEN PayloadAgents[i].info["error"] ELSE "Failed")
                  ELSE DOMAIN AgentLines[i] = {"id", "name", "online"}

C6_Witness ==
    /\ ReportedSuccess
    /\ hin.handler = "detailed"
    /\ PayloadAgents = TwoAgents
    /\ Len(AgentLines) = Len(TwoAgents)
    /\ AgentLines[1].online /\ ~AgentLines[2].online
    /\ AgentLines[2].detail = "x"

\* C7: when test_connections raises, the handler shows exactly one line, the
\* failure with the captured error text, and no agent, storage, analytics
\* or feature entry; the handler ends normally.
C7_RaiseSingleFailure ==
    (hin.done /\ hin.outcome.raised) =>
        /\ Len(hrep.msgs) = 1
        /\ hrep.msgs[1].level = "error"
        /\ hrep.msgs[1].id = FailureId(hin.handler)
        /\ hrep.msgs[1].arg = hin.outcome.err
        /\ hrep.reads = {}

C7_Witness ==
    /\ hin.done
    /\ hin.outcome.raised
    /\ hin.handler = "detailed"
    /\ hrep.msgs[1].arg = "boom"

\* ---- the process (Spec)

\* C8: the body of create_api runs at most once in the process, however
\* many sessions and reruns call create_api; the cache holds the result of
\* that one run and every session's api object is that result.
C8_BodyOnce ==
    /\ bodyRuns <= 1
    /\ cache.filled <=> bodyRuns = 1
    /\ \A s \in Sessions : api[s] # None => (cache.filled /\ api[s] = cache.value)

C8_Witness ==
    /\ bodyRuns = 1
    /\ \A s \in Sessions : api[s] = "api"

\* C9: initialize() is called at most once on the shared api object, and
\* before any test_connections or monitor_queries call on it.
C9_InitializeOnce ==
    /\ initCalls <= 1
    /\ firstCall \in {"none", "initialize"}

\* C10: when initialize() returns false or raises, initialize_api_async
\* hands back false, no exception leaves it, the session's initialized flag
\* is false, its api object is kept, an error is on the screen, and the run
\* has ended without a test_connections or monitor_queries call.
C10_FailedInitRecovered ==
    (out.step = "initialize" /\ out.input \in {"false", "raise"}) =>
        /\ initialized[out.session] = FALSE
        /\ api[out.session] = "api"
        /\ pc[out.session] = "idle"
        /\ out.msgs[Len(out.msgs)] = Msg("error", "failed_to_initialize")
        /\ out.input = "raise" => HasMsg(out.msgs, "failed_to_initialize_api")

C10_Witness ==
    /\ out.step = "initialize"
    /\ out.input = "raise"
    /\ Len(out.msgs) > 1
    /\ runs > 1

\* a monitor_queries outcome that is a failure: it raised, returned nothing,
\* or returned a result whose success flag is false or absent
MonitorFailed(o) ==
    \/ o.raised
    \/ o.result.isNone
    \/ ~Get(o.result.dict, "success", FALSE)

\* C11: a failed monitoring request (monitor_queries raised, returned
\* nothing, or returned a result without success = true) shows the failure
\* and leaves the session's api, initialized and last_results as they were
\* before the request.
C11_FailureRetainsState ==
    [][\A s \in Sessions :
          (pc[s] = "monitor" /\ pc'[s] = "idle" /\ MonitorFailed(out'.input)) =>
              /\ HasMsg(out'.msgs, "monitoring_failed")
              /\ api'[s] = api[s]
              /\ initialized'[s] = initialized[s]
              /\ last_results'[s] = last_results[s]]_vars

\* C12: at no time are two calls into the shared API object in progress at
\* once, whichever sessions they were started from.
C12_OneCallInFlight ==
    Cardinality({s \in Sessions : pc[s] # "idle"}) <= 1

\* C13: a session whose initialize() has failed (it holds the api object, is
\* not initialized and has no call in flight) does not call initialize()
\* again on a later run of the script.
C13_NoRetryOfInitialize ==
    [][\A s \in Sessions :
          (api[s] # None /\ ~initialized[s] /\ pc[s] = "idle") =>
              pc'[s] # "initialize"]_vars

\* the four messages of the credentials check
CredsIds ==
    {"creds_missing", "creds_not_json", "creds_no_client_email", "creds_email"}

CredsShown(msgs) == SelectSeq(msgs, LAMBDA m : m.id \in CredsIds)

\* the parsed credentials are an object with a client_email field
HasClientEmail(data) ==
    data.type = "dict" /\ "client_email" \in DOMAIN data.items

\* the outcome the four cases give a credentials string
ExpectedCredsId(credentials_json) ==
    IF credentials_json = <<>> THEN "creds_missing"
    ELSE IF ~json_loads(credentials_json).ok THEN "creds_not_json"
    ELSE IF HasClientEmail(json_loads(credentials_json)) THEN "creds_email"
    ELSE "creds_no_client_email"

\* msgs show exactly the one expected credentials message
ExpectedCredsShown(msgs, credentials_json) ==
    /\ Len(CredsShown(msgs)) = 1
    /\ CredsShown(msgs)[1].id = ExpectedCredsId(credentials_json)
    /\ CredsShown(msgs)[1].id = "creds_email" =>
          CredsShown(msgs)[1].arg =
              json_loads(credentials_json).items["client_email"]

CredsOutcome(r, credentials_json) ==
    /\ ~r.raised
    /\ ExpectedCredsShown(r.msgs, credentials_json)

\* C14: the credentials check of create_config_from_secrets never raises and
\* shows exactly one of four messages: 'missing' for empty credentials, 'not
\* valid JSON' for unparseable ones, 'missing client_email' for parseable
\* JSON without that field, the email for JSON with it; the config content
\* is returned in every case.
C14_FourOutcomes ==
    runs > 0 =>
        /\ CredsOutcome(create_config_from_secrets(secrets),
                        SecretGet(secrets, "GOOGLE_SERVICE_ACCOUNT_CREDENTIALS"))
        /\ cache.filled =>
              ExpectedCredsShown(cache.msgs,
                  SecretGet(secrets, "GOOGLE_SERVICE_ACCOUNT_CREDENTIALS"))

\* the four secrets the config text interpolates
Interpolated(sec) ==
    <<SecretGet(sec, "OPENAI_API_KEY"), SecretGet(sec, "PERPLEXITY_API_KEY"),
      SecretGet(sec, "GEMINI_API_KEY"),
      SecretGet(sec, "GOOGLE_SHEETS_SPREADSHEET_ID")>>

\* the four values a rendered config carries
Carried(content) ==
    <<content.openai_api_key, content.perplexity_api_key,
      content.gemini_api_key, content.spreadsheet_id>>

\* a and b are what create_config_from_secrets gives for sec1 and sec2
ConfigsAgree(sec1, sec2, a, b) ==
    (~a.raised /\ ~b.raised) =>
        /\ a.config_content.fixed = b.config_content.fixed
        /\ Carried(a.config_content) = Interpolated(sec1)
        /\ Carried(b.config_content) = Interpolated(sec2)
        /\ Interpolated(sec1) = Interpolated(sec2) =>
              a.config_content = b.config_content

\* C15: the config rendered for the secrets in use and the config rendered
\* for any other secret set have identical fixed fields; each carries exactly
\* its own three api keys and spreadsheet id, and two secret sets with the
\* same four values give identical content, whatever their credentials.
\* Stated for the state after the run in which create_api rendered it.
C15_OnlyFourVary ==
    (bodyRuns = 1 /\ runs = 1) =>
        \A other \in SecretSets :
            ConfigsAgree(secrets, other, create_config_from_secrets(secrets),
                         create_config_from_secrets(other))

C15_Witness ==
    /\ bodyRuns = 1
    /\ runs = 1
    /\ cache.value = "api"
    /\ \E other \in SecretSets :
          /\ ~create_config_from_secrets(other).raised
          /\ Interpolated(other)[2] # Interpolated(secrets)[2]
          /\ Interpolated(other)[4] = Interpolated(secrets)[4]
    /\ \E other \in SecretSets :
          /\ other # secrets
          /\ Interpolated(other) = Interpolated(secrets)

HealthSteps == {"test_sidebar", "test_detailed"}

\* C16: a step of either health-check handler, the run that starts its
\* test_connections call or the return of that call, leaves the session's
\* api, initialized and last_results, and the process-wide cache, as they
\* were: nothing of the status payload is kept.
C16_HealthCheckTransient ==
    [][\A s \in Sessions :
          (pc[s] \in HealthSteps \/ pc'[s] \in HealthSteps) =>
              /\ api'[s] = api[s]
              /\ initialized'[s] = initialized[s]
              /\ last_results'[s] = last_results[s]
              /\ cache' = cache]_vars

C16_Witness ==
    /\ out.step \in HealthSteps
    /\ ~out.input.raised
    /\ out.input.status.success
    /\ TruthyResult(last_results[out.session])

CallSteps == {"test_sidebar", "test_detailed", "monitor"}

\* the latest step was a run of main that started a monitor_queries call
MonitorStarted == out.step = "main" /\ pc[out.session] = "monitor"

\* the latest step was a run of main with the monitoring button clicked on
\* an empty query
EmptyQueryClicked ==
    /\ out.step = "main"
    /\ out.input.button = "monitor"
    /\ out.input.query = <<>>

CallsGuarded ==
    /\ \A s \in Sessions : initialized[s] => api[s] # None
    /\ \A s \in Sessions :
          pc[s] \in CallSteps => (api[s] # None /\ initialized[s])
    /\ MonitorStarted =>
          /\ out.input.button = "monitor"
          /\ out.input.query # <<>>
          /\ out.msgs[Len(out.msgs)] =
                MsgArg("call", "monitor_queries",
                       [queries |-> <<out.input.query>>, mode |-> "parallel",
                        enable_ranking |-> TRUE, enable_analytics |-> TRUE])
    /\ EmptyQueryClicked =>
          /\ pc[out.session] = "idle"
          /\ ~HasMsg(out.msgs, "monitor_queries")
          /\ HasMsg(out.msgs, "enter_query")

\* a run of main with the monitoring button clicked on an empty query
\* changes nothing of the sessions, the cache or the files
EmptyQueryNoEffect ==
    (/\ runs' # runs
     /\ out'.step = "main"
     /\ out'.input.button = "monitor"
     /\ out'.input.query = <<>>) =>
        UNCHANGED <<api, initialized, last_results, pc, cache, files,
                    tempAttr, initCalls, firstCall>>

\* C17: test_connections and monitor_queries are in progress only for a
\* session whose api is set and whose initialized flag is true, and an
\* initialized session has its api set; monitor_queries is called only with
\* a non-empty query, as the one-element list of it with mode 'parallel' and
\* ranking and analytics enabled; a click with an empty query makes no call,
\* shows the warning and changes no state.
C17_CallsGuarded == []CallsGuarded /\ [][EmptyQueryNoEffect]_vars

C17_Witness ==
    /\ MonitorStarted
    /\ \E t \in Sessions :
          api[t] # None /\ ~initialized[t] /\ pc[t] = "idle"

\* the latest step was the monitoring handler after monitor_queries returned
\* (or raised)
MonitorHandled == out.step = "monitor"

\* the result of the request was returned with success = true
ResultSucceeded(o) ==
    ~o.raised /\ TruthyResult(o.result) /\ Get(o.result.dict, "success", FALSE)

\* C18: the monitoring handler shows 'Brand monitoring completed
\* successfully' only for a result whose success flag is true, never shows
\* it together with 'Monitoring failed', and offers the JSON download only
\* for a successful result.
C18_SuccessOnlyOnSuccess ==
    MonitorHandled =>
        /\ HasMsg(out.msgs, "monitoring_completed") => ResultSucceeded(out.input)
        /\ ~(HasMsg(out.msgs, "monitoring_completed")
             /\ HasMsg(out.msgs, "monitoring_failed"))
        /\ HasMsg(out.msgs, "download_json") => ResultSucceeded(out.input)

====
